---- MODULE Spec2Model ----
(***************************************************************************)
(* A model of takopi's message pipeline:                                   *)
(*   - TopicDebouncer        (src/src/takopi/telegram/debouncer.py)        *)
(*   - CodexExecRunner       (src/codex/codex_telegram_bridge/exec_bridge.py) *)
(*   - the Telegram loop     (main / handle of exec_bridge.py)             *)
(* Each component has its own specification; the variables of the other    *)
(* components stay at their initial values under it.                       *)
(***************************************************************************)
EXTENDS Integers, Sequences, FiniteSets, TLC

\* Python's Optional: None is the empty tuple, a present value x is <<x>>.
None == <<>>
Some(x) == <<x>>

(***************************************************************************)
(* Bounds of the model.                                                    *)
(***************************************************************************)
\* add_message calls in one behaviour of the debouncer
MaxMsgs == 2
\* largest timestamp an arriving message carries (unit: 200 ms)
MaxTime == 1

\* threads calling the runner at once; the worker threads of the bridge's pool
NumThreads == 2
\* updates the Telegram loop receives in one behaviour
MaxUpdates == 2
\* messages one send_message_chunked call splits a text into, at most
MaxChunks == 2

\* lines of stdout one external process writes, at most
MaxLines == 3

\* run keeps the last 200 lines of stderr for its error
TailLimit == 200

\* TopicDebouncer.__init__'s default window, 200 ms; the time unit is 200 ms
Window == 1

(***************************************************************************)
(* State                                                                   *)
(***************************************************************************)
\* TopicDebouncer
VARIABLES
    window_s,   \* TopicDebouncer._window_s
    pending,    \* TopicDebouncer._pending: the dict's entries in insertion order
    arrivals,   \* history: every PendingMessage handed to add_message, in order
    emitted,    \* history: every MessageBatch returned, with the arrival count then
    lastCall    \* the last call on the debouncer with its return value

\* TopicDebouncer called from two threads at once
VARIABLES
    c_pending,  \* TopicDebouncer._pending: each key with the _PendingBatch
                \* object it refers to, in insertion order
    c_objs,     \* the _PendingBatch objects made so far
    adder,      \* the thread calling add_message: where it is, its locals
    flusher,    \* the thread calling check_expired, flush_all, flush_topic
    c_added,    \* history: the ids of the messages whose add_message returned
    c_out,      \* history: the batches returned, with their messages' ids
    c_failed    \* history: the calls that raised

\* resolve_engine and resolve_message
VARIABLES
    resolve_args,  \* the arguments of the call and the project configuration
    resolved       \* what the call returned, None before it

\* CodexExecRunner and the threads calling it
VARIABLES
    locks,       \* CodexExecRunner._locks: session id -> lock object
    held,        \* the lock objects made so far: held[l] is l's holder, 0 if free
    guard,       \* holder of CodexExecRunner._locks_guard, 0 if free
    pc,          \* where each thread is
    session_id,  \* run_serialized's session_id argument, per thread
    lock,        \* run_serialized's local lock, per thread (0: none)
    result,      \* what run returned or raised, per thread
    waited       \* history: threads that found their session's lock held

\* one call of CodexExecRunner.run and its external process
VARIABLES
    run_session_id,  \* run's session_id argument
    proc_stdout,     \* the lines the process writes to stdout
    proc_exit,       \* the process's exit code
    proc_stderr,     \* how many lines the process writes to stderr
    run_pc,          \* where run is: "reading", "waiting", "done"
    line_no,         \* how many lines of stdout the for loop has taken
    found_session,   \* run's local found_session
    last_agent_text, \* run's local last_agent_text
    rc,              \* run's local rc, None before proc.wait() returned
    run_result       \* what run returned or raised

\* main(): the Telegram loop, its pool and its collaborators
VARIABLES
    allowed,     \* parse_allowed_chat_ids(...): None or the set of chats served
    offset,      \* main's offset
    queue,       \* the pool's queue of submitted handle calls
    store,       \* the RouteStore: (chat id, message id) -> route
    job,         \* handle's arguments, per worker thread
    toLink,      \* handle's sent_msgs not yet linked, per worker thread
    nextMsgId,   \* Telegram: the next message id of each chat
    nextUpdateId,\* Telegram: the next update id
    sent,        \* history: the send_message_chunked calls made
    submitted,   \* history: the handle calls submitted, with what was linked then
    linkCalls,   \* history: the (chat id, message id) store.link was called for
    done         \* history: the handle calls that returned, with run's outcome

debVars == <<window_s, pending, arrivals, emitted, lastCall>>
concVars == <<c_pending, c_objs, adder, flusher, c_added, c_out, c_failed>>
resolveVars == <<resolve_args, resolved>>
runVars == <<locks, held, guard, pc, session_id, lock, result, waited>>
bridgeVars == <<allowed, offset, queue, store, job, toLink, nextMsgId,
                nextUpdateId, sent, submitted, linkCalls, done>>
streamVars == <<run_session_id, proc_stdout, proc_exit, proc_stderr, run_pc,
                line_no, found_session, last_agent_text, rc, run_result>>
vars == <<debVars, concVars, resolveVars, runVars, streamVars, bridgeVars>>

(***************************************************************************)
(* TopicDebouncer                                                          *)
(***************************************************************************)
\* The topic keys of the model: chats differ, threads differ, thread absent.
TopicKeys == {<<1, None>>, <<1, Some(10)>>, <<2, Some(10)>>}
\* What an arriving message carries besides its topic, id and timestamp:
\* text (a string is the sequence of its characters) and
\* (resume_token, context, engine_override), absent or present.
Payloads ==
    { [text |-> <<"a">>, resume_token |-> None, context |-> None,
       engine_override |-> None],
      [text |-> <<"b">>, resume_token |-> Some("tok1"), context |-> Some("ctx1"),
       engine_override |-> Some("claude")],
      [text |-> <<"c">>, resume_token |-> Some("tok2"), context |-> Some("ctx2"),
       engine_override |-> Some("codex")] }
Times == 0..MaxTime
\* the instants check_expired is called with
Nows == 0..(MaxTime + Window)

\* dataclass PendingMessage
PendingMessage(key, id, payload, ts) ==
    [chat_id |-> key[1], user_msg_id |-> id, text |-> payload.text,
     resume_token |-> payload.resume_token, context |-> payload.context,
     thread_id |-> key[2], engine_override |-> payload.engine_override,
     timestamp |-> ts]

\* TopicKey with the thread id left out of the key
TopicKeyChatOnly(msg) == <<msg.chat_id, None>>

\* TopicKey: key = (msg.chat_id, msg.thread_id)
TopicKey(msg) == <<msg.chat_id, msg.thread_id>>

\* "\n".join(texts)
RECURSIVE JoinNewline(_)
JoinNewline(texts) ==
    IF texts = <<>> THEN <<>>
    ELSE IF Len(texts) = 1 THEN texts[1]
    ELSE texts[1] \o <<"\n">> \o JoinNewline(Tail(texts))

\* _finalize_batch joining the texts with a space
FinalizeBatchSpaceJoined(batch) ==
    LET messages == batch.messages
        first == messages[1]
        last == messages[Len(messages)]
    IN  [chat_id |-> first.chat_id,
         first_msg_id |-> first.user_msg_id,
         last_msg_id |-> last.user_msg_id,
         combined_text |-> IF Len(messages) = 1 THEN first.text
                           ELSE first.text \o <<" ">> \o last.text,
         resume_token |-> first.resume_token,
         context |-> first.context,
         thread_id |-> first.thread_id,
         engine_override |-> first.engine_override]

\* _finalize_batch taking the routing hints of the last message
FinalizeBatchHintsOfLast(batch) ==
    LET messages == batch.messages
        first == messages[1]
        last == messages[Len(messages)]
    IN  [chat_id |-> first.chat_id,
         first_msg_id |-> first.user_msg_id,
         last_msg_id |-> last.user_msg_id,
         combined_text |-> JoinNewline([i \in 1..Len(messages) |-> messages[i].text]),
         resume_token |-> last.resume_token,
         context |-> last.context,
         thread_id |-> first.thread_id,
         engine_override |-> last.engine_override]

\* TopicDebouncer._finalize_batch
FinalizeBatch(batch) ==
    LET messages == batch.messages
        first == messages[1]
        last == messages[Len(messages)]
        combined_text == JoinNewline([i \in 1..Len(messages) |-> messages[i].text])
    IN  [chat_id |-> first.chat_id,
         first_msg_id |-> first.user_msg_id,
         last_msg_id |-> last.user_msg_id,
         combined_text |-> combined_text,
         resume_token |-> first.resume_token,
         context |-> first.context,
         thread_id |-> first.thread_id,
         engine_override |-> first.engine_override]

\* the MessageBatch add_message builds when debouncing is disabled
ImmediateBatch(msg) ==
    [chat_id |-> msg.chat_id,
     first_msg_id |-> msg.user_msg_id,
     last_msg_id |-> msg.user_msg_id,
     combined_text |-> msg.text,
     resume_token |-> msg.resume_token,
     context |-> msg.context,
     thread_id |-> msg.thread_id,
     engine_override |-> msg.engine_override]

\* index of key's entry in the dict, 0 when absent: self._pending.get(key)
PendingIndex(p, key) ==
    IF \E i \in 1..Len(p) : p[i].key = key
    THEN CHOOSE i \in 1..Len(p) : p[i].key = key
    ELSE 0

\* add_message setting the deadline only when it creates the entry
PendingAfterAddKeepsDeadline(p, msg) ==
    LET key == TopicKey(msg)
        i == PendingIndex(p, key)
    IN  IF i = 0
        THEN Append(p, [key |-> key, messages |-> <<msg>>,
                        deadline |-> msg.timestamp + window_s])
        ELSE [p EXCEPT ![i].messages = Append(p[i].messages, msg)]

\* the dict after add_message's append and deadline reset
PendingAfterAdd(p, msg) ==
    LET key == TopicKey(msg)
        now == msg.timestamp
        i == PendingIndex(p, key)
        q == IF i = 0
             THEN Append(p, [key |-> key, messages |-> <<>>, deadline |-> 0])
             ELSE p
        j == IF i = 0 THEN Len(q) ELSE i
    IN  [q EXCEPT ![j] = [key |-> key,
                          messages |-> Append(q[j].messages, msg),
                          deadline |-> now + window_s]]

\* check_expired's test with the deadline itself left out
IsExpiredStrict(batch, now) == batch.deadline < now /\ batch.messages # <<>>

\* check_expired's test of one entry
IsExpired(batch, now) == batch.deadline <= now /\ batch.messages # <<>>

\* the entries check_expired finalizes, in the dict's order
ExpiredEntries(p, now) == SelectSeq(p, LAMBDA b : IsExpired(b, now))

\* the list check_expired returns
ExpiredBatches(p, now) ==
    LET hit == ExpiredEntries(p, now)
    IN  [i \in 1..Len(hit) |-> FinalizeBatch(hit[i])]

\* check_expired without its deletion loop
PendingAfterExpiryKept(p, now) == p

\* the dict after check_expired deleted the expired keys
PendingAfterExpiry(p, now) == SelectSeq(p, LAMBDA b : ~IsExpired(b, now))

\* flush_all finalizing only the entries whose deadline has come
FlushedEntriesDueOnly(p) ==
    SelectSeq(p, LAMBDA b : b.messages # <<>> /\ b.deadline <= 0)

\* the entries flush_all finalizes, in the dict's order
FlushedEntries(p) == SelectSeq(p, LAMBDA b : b.messages # <<>>)

\* the list flush_all returns
FlushedBatches(p) ==
    LET hit == FlushedEntries(p)
    IN  [i \in 1..Len(hit) |-> FinalizeBatch(hit[i])]

\* min() taking the first deadline of the dict
SeqFirst(s) == s[1]

\* min() of a non-empty sequence
RECURSIVE SeqMin(_)
SeqMin(s) ==
    IF Len(s) = 1 THEN s[1]
    ELSE LET m == SeqMin(Tail(s)) IN IF s[1] <= m THEN s[1] ELSE m

\* the deadlines next_deadline takes the minimum of
LiveDeadlines(p) ==
    LET live == SelectSeq(p, LAMBDA b : b.messages # <<>>)
    IN  [i \in 1..Len(live) |-> live[i].deadline]

\* whether next_deadline raises: min() of an empty sequence is a ValueError
NextDeadlineRaises(p) == p # <<>> /\ LiveDeadlines(p) = <<>>

\* TopicDebouncer.next_deadline's return value
NextDeadlineOf(p) ==
    IF p = <<>> THEN None
    ELSE IF LiveDeadlines(p) = <<>> THEN None
    ELSE Some(SeqMin(LiveDeadlines(p)))

\* history entry of one add_message call: the message without its timestamp
Arrival(msg) ==
    [chat_id |-> msg.chat_id, user_msg_id |-> msg.user_msg_id, text |-> msg.text,
     resume_token |-> msg.resume_token, context |-> msg.context,
     thread_id |-> msg.thread_id, engine_override |-> msg.engine_override]

\* history entries for the batches one call returned: the MessageBatch, the
\* ids of the messages _finalize_batch was given, and the arrival count then
Emit(entries) ==
    [i \in 1..Len(entries) |->
        [batch |-> FinalizeBatch(entries[i]),
         ids |-> [j \in 1..Len(entries[i].messages) |->
                     entries[i].messages[j].user_msg_id],
         at |-> Len(arrivals)]]

InitDebouncer ==
    /\ window_s \in {0, Window}
    /\ pending = <<>>
    /\ arrivals = <<>>
    /\ emitted = <<>>
    /\ lastCall = [op |-> "init", ret |-> None, raised |-> FALSE]

\* add_message without its test of the window
AddMessageAlwaysPends(msg) ==
    /\ arrivals' = Append(arrivals, Arrival(msg))
    /\ pending' = PendingAfterAdd(pending, msg)
    /\ emitted' = emitted
    /\ lastCall' = [op |-> "add_message", ret |-> None, raised |-> FALSE]
    /\ UNCHANGED <<window_s, concVars, resolveVars, runVars, streamVars, bridgeVars>>

\* TopicDebouncer.add_message
AddMessage(msg) ==
    /\ arrivals' = Append(arrivals, Arrival(msg))
    /\ IF window_s <= 0
       THEN /\ pending' = pending
            /\ emitted' = emitted \o
                  <<[batch |-> ImmediateBatch(msg), ids |-> <<msg.user_msg_id>>,
                     at |-> Len(arrivals) + 1]>>
            /\ lastCall' = [op |-> "add_message",
                            ret |-> Some(ImmediateBatch(msg)), raised |-> FALSE]
       ELSE /\ pending' = PendingAfterAdd(pending, msg)
            /\ emitted' = emitted
            /\ lastCall' = [op |-> "add_message", ret |-> None,
                            raised |-> FALSE]
    /\ UNCHANGED <<window_s, concVars, resolveVars, runVars, streamVars, bridgeVars>>

\* TopicDebouncer.check_expired
CheckExpired(now) ==
    /\ pending' = PendingAfterExpiry(pending, now)
    /\ emitted' = emitted \o Emit(ExpiredEntries(pending, now))
    /\ lastCall' = [op |-> "check_expired",
                    ret |-> ExpiredBatches(pending, now), raised |-> FALSE]
    /\ UNCHANGED <<window_s, arrivals, concVars, resolveVars, runVars, streamVars, bridgeVars>>

\* TopicDebouncer.next_deadline
NextDeadline ==
    /\ lastCall' = [op |-> "next_deadline",
                    ret |-> NextDeadlineOf(pending),
                    raised |-> NextDeadlineRaises(pending)]
    /\ UNCHANGED <<window_s, pending, arrivals, emitted, concVars, resolveVars, runVars, streamVars, bridgeVars>>

\* TopicDebouncer.flush_all
FlushAll ==
    /\ pending' = <<>>
    /\ emitted' = emitted \o Emit(FlushedEntries(pending))
    /\ lastCall' = [op |-> "flush_all",
                    ret |-> FlushedBatches(pending), raised |-> FALSE]
    /\ UNCHANGED <<window_s, arrivals, concVars, resolveVars, runVars, streamVars, bridgeVars>>

\* flush_topic clearing every topic
FlushTopicClearsAll(key) ==
    LET i == PendingIndex(pending, key)
        hit == IF i = 0 THEN <<>> ELSE <<pending[i]>>
        ret == IF hit = <<>> THEN None ELSE Some(FinalizeBatch(hit[1]))
    IN  /\ pending' = <<>>
        /\ emitted' = emitted \o Emit(hit)
        /\ lastCall' = [op |-> "flush_topic", ret |-> ret,
                        raised |-> FALSE]
        /\ UNCHANGED <<window_s, arrivals, concVars, resolveVars, runVars, streamVars, bridgeVars>>

\* TopicDebouncer.flush_topic
FlushTopic(key) ==
    LET i == PendingIndex(pending, key)
        hit == IF i = 0 THEN <<>>
               ELSE IF pending[i].messages = <<>> THEN <<>>
               ELSE <<pending[i]>>
        ret == IF hit = <<>> THEN None ELSE Some(FinalizeBatch(hit[1]))
    IN  /\ pending' = SelectSeq(pending, LAMBDA b : b.key # key)
        /\ emitted' = emitted \o Emit(hit)
        /\ lastCall' = [op |-> "flush_topic", ret |-> ret,
                        raised |-> FALSE]
        /\ UNCHANGED <<window_s, arrivals, concVars, resolveVars, runVars, streamVars, bridgeVars>>

NextDebouncer ==
    \/ \E key \in TopicKeys, payload \in Payloads, ts \in Times :
          /\ Len(arrivals) < MaxMsgs
          /\ AddMessage(PendingMessage(key, 100 + Len(arrivals), payload, ts))
    \/ \E now \in Nows : CheckExpired(now)
    \/ NextDeadline
    \/ FlushAll
    \/ \E key \in TopicKeys : FlushTopic(key)

(***************************************************************************)
(* TopicDebouncer called from two threads.  The class takes no lock, so a  *)
(* thread switch can fall between any two statements of a method; one      *)
(* thread calls add_message and the other one of check_expired, flush_all  *)
(* and flush_topic.  A step is one statement; a dict operation is atomic.  *)
(***************************************************************************)
\* what a message of this specification carries besides topic, id, timestamp
ConcPayload == CHOOSE p \in Payloads : p.resume_token = None

\* the adder outside add_message, n calls made so far
IdleAdder(n) == [pc |-> "idle", n |-> n, msg |-> None, batch |-> 0]

\* the flusher outside any call
IdleFlusher ==
    [pc |-> "idle", now |-> 0, batch |-> 0, used |-> 0, pos |-> 0,
     expired |-> <<>>, keys |-> <<>>]

\* _PendingBatch(): no messages, deadline 0.0
NewPendingBatch == [messages |-> <<>>, deadline |-> 0]

\* self._pending[key] = batch on the dict p, with batch the object ref
DictSet(p, key, ref) ==
    LET i == PendingIndex(p, key)
    IN  IF i = 0 THEN Append(p, [key |-> key, ref |-> ref])
        ELSE [p EXCEPT ![i].ref = ref]

\* del self._pending[key], self._pending.pop(key)
DictDel(p, key) == SelectSeq(p, LAMBDA e : e.key # key)

\* next() on an iterator over the dict made when it had `used` entries, `pos`
\* of them taken: RuntimeError when the dict's size changed since
DictIterNext(p, used, pos) ==
    IF used # Len(p) THEN "raise"
    ELSE IF pos < Len(p) THEN "item"
    ELSE "stop"

\* the ids of the messages of a _PendingBatch
BatchIds(b) == [j \in 1..Len(b.messages) |-> b.messages[j].user_msg_id]

\* a finalized batch as the history keeps it
Finalized(b) == [batch |-> FinalizeBatch(b), ids |-> BatchIds(b)]

InitConcurrent ==
    /\ c_pending = <<>>
    /\ c_objs = <<>>
    /\ adder = IdleAdder(0)
    /\ flusher = IdleFlusher
    /\ c_added = <<>>
    /\ c_out = <<>>
    /\ c_failed = {}

\* add_message is called; the window is not zero: key and now are set
AddEnter(msg) ==
    /\ adder.pc = "idle"
    /\ window_s > 0
    /\ adder' = [pc |-> "get", n |-> adder.n + 1, msg |-> Some(msg), batch |-> 0]
    /\ UNCHANGED <<c_pending, c_objs, flusher, c_added, c_out, c_failed,
                   debVars, resolveVars, runVars, streamVars, bridgeVars>>

\* add_message: batch = self._pending.get(key)
AddGet ==
    /\ adder.pc = "get"
    /\ LET i == PendingIndex(c_pending, TopicKey(adder.msg[1]))
       IN  adder' = [adder EXCEPT
                       !.batch = IF i = 0 THEN 0 ELSE c_pending[i].ref,
                       !.pc = IF i = 0 THEN "create" ELSE "append"]
    /\ UNCHANGED <<c_pending, c_objs, flusher, c_added, c_out, c_failed,
                   debVars, resolveVars, runVars, streamVars, bridgeVars>>

\* add_message: batch = _PendingBatch(); self._pending[key] = batch
AddCreate ==
    /\ adder.pc = "create"
    /\ c_objs' = Append(c_objs, NewPendingBatch)
    /\ c_pending' = DictSet(c_pending, TopicKey(adder.msg[1]), Len(c_objs) + 1)
    /\ adder' = [adder EXCEPT !.batch = Len(c_objs) + 1, !.pc = "append"]
    /\ UNCHANGED <<flusher, c_added, c_out, c_failed,
                   debVars, resolveVars, runVars, streamVars, bridgeVars>>

\* add_message: batch.messages.append(msg)
AddAppend ==
    /\ adder.pc = "append"
    /\ c_objs' = [c_objs EXCEPT ![adder.batch].messages = Append(@, adder.msg[1])]
    /\ adder' = [adder EXCEPT !.pc = "deadline"]
    /\ UNCHANGED <<c_pending, flusher, c_added, c_out, c_failed,
                   debVars, resolveVars, runVars, streamVars, bridgeVars>>

\* add_message: batch.deadline = now + self._window_s; return None
AddReturn ==
    /\ adder.pc = "deadline"
    /\ c_objs' = [c_objs EXCEPT ![adder.batch].deadline =
                                   adder.msg[1].timestamp + window_s]
    /\ c_added' = Append(c_added, adder.msg[1].user_msg_id)
    /\ adder' = IdleAdder(adder.n)
    /\ UNCHANGED <<c_pending, flusher, c_out, c_failed,
                   debVars, resolveVars, runVars, streamVars, bridgeVars>>

\* check_expired is called: the lists are made, the loop's iterator is made
CheckExpiredEnter(now) ==
    /\ flusher.pc = "idle"
    /\ flusher' = [IdleFlusher EXCEPT !.pc = "ce_loop", !.now = now,
                                      !.used = Len(c_pending)]
    /\ UNCHANGED <<c_pending, c_objs, adder, c_added, c_out, c_failed,
                   debVars, resolveVars, runVars, streamVars, bridgeVars>>

\* check_expired: one pass of `for key, batch in self._pending.items()`
CheckExpiredNext ==
    /\ flusher.pc = "ce_loop"
    /\ LET step == DictIterNext(c_pending, flusher.used, flusher.pos)
       IN  IF step = "raise"
           THEN /\ c_failed' = c_failed \cup {"check_expired"}
                /\ flusher' = IdleFlusher
           ELSE IF step = "stop"
           THEN /\ flusher' = [flusher EXCEPT !.pc = "ce_del"]
                /\ UNCHANGED c_failed
           ELSE LET e == c_pending[flusher.pos + 1]
                    b == c_objs[e.ref]
                IN  /\ flusher' =
                          IF IsExpired(b, flusher.now)
                          THEN [flusher EXCEPT
                                  !.pos = @ + 1,
                                  !.expired = Append(@, Finalized(b)),
                                  !.keys = Append(@, e.key)]
                          ELSE [flusher EXCEPT !.pos = @ + 1]
                    /\ UNCHANGED c_failed
    /\ UNCHANGED <<c_pending, c_objs, adder, c_added, c_out,
                   debVars, resolveVars, runVars, streamVars, bridgeVars>>

\* check_expired: one pass of `for key in expired_keys: del self._pending[key]`
CheckExpiredDel ==
    /\ flusher.pc = "ce_del"
    /\ flusher.keys # <<>>
    /\ IF PendingIndex(c_pending, Head(flusher.keys)) = 0
       THEN /\ c_failed' = c_failed \cup {"check_expired"}
            /\ flusher' = IdleFlusher
            /\ UNCHANGED c_pending
       ELSE /\ c_pending' = DictDel(c_pending, Head(flusher.keys))
            /\ flusher' = [flusher EXCEPT !.keys = Tail(@)]
            /\ UNCHANGED c_failed
    /\ UNCHANGED <<c_objs, adder, c_added, c_out,
                   debVars, resolveVars, runVars, streamVars, bridgeVars>>

\* check_expired: return expired
CheckExpiredReturn ==
    /\ flusher.pc = "ce_del"
    /\ flusher.keys = <<>>
    /\ c_out' = c_out \o flusher.expired
    /\ flusher' = IdleFlusher
    /\ UNCHANGED <<c_pending, c_objs, adder, c_added, c_failed,
                   debVars, resolveVars, runVars, streamVars, bridgeVars>>

\* flush_all is called: the list is made, the loop's iterator is made
FlushAllEnter ==
    /\ flusher.pc = "idle"
    /\ flusher' = [IdleFlusher EXCEPT !.pc = "fa_loop", !.used = Len(c_pending)]
    /\ UNCHANGED <<c_pending, c_objs, adder, c_added, c_out, c_failed,
                   debVars, resolveVars, runVars, streamVars, bridgeVars>>

\* flush_all: one pass of `for batch in self._pending.values()`
FlushAllNext ==
    /\ flusher.pc = "fa_loop"
    /\ LET step == DictIterNext(c_pending, flusher.used, flusher.pos)
       IN  IF step = "raise"
           THEN /\ c_failed' = c_failed \cup {"flush_all"}
                /\ flusher' = IdleFlusher
           ELSE IF step = "stop"
           THEN /\ flusher' = [flusher EXCEPT !.pc = "fa_clear"]
                /\ UNCHANGED c_failed
           ELSE LET b == c_objs[c_pending[flusher.pos + 1].ref]
                IN  /\ flusher' =
                          IF b.messages # <<>>
                          THEN [flusher EXCEPT !.pos = @ + 1,
                                               !.expired = Append(@, Finalized(b))]
                          ELSE [flusher EXCEPT !.pos = @ + 1]
                    /\ UNCHANGED c_failed
    /\ UNCHANGED <<c_pending, c_objs, adder, c_added, c_out,
                   debVars, resolveVars, runVars, streamVars, bridgeVars>>

\* flush_all: self._pending.clear(); return batches
FlushAllClear ==
    /\ flusher.pc = "fa_clear"
    /\ c_pending' = <<>>
    /\ c_out' = c_out \o flusher.expired
    /\ flusher' = IdleFlusher
    /\ UNCHANGED <<c_objs, adder, c_added, c_failed,
                   debVars, resolveVars, runVars, streamVars, bridgeVars>>

\* flush_topic is called: batch = self._pending.pop(key, None), and the
\* return of None when the key was absent
FlushTopicPop(key) ==
    /\ flusher.pc = "idle"
    /\ LET i == PendingIndex(c_pending, key)
       IN  IF i = 0
           THEN UNCHANGED <<c_pending, flusher>>
           ELSE /\ c_pending' = DictDel(c_pending, key)
                /\ flusher' = [IdleFlusher EXCEPT !.pc = "ft_final",
                                                  !.batch = c_pending[i].ref]
    /\ UNCHANGED <<c_objs, adder, c_added, c_out, c_failed,
                   debVars, resolveVars, runVars, streamVars, bridgeVars>>

\* flush_topic: None for a batch without messages, else the finalized batch
FlushTopicReturn ==
    /\ flusher.pc = "ft_final"
    /\ c_out' = IF c_objs[flusher.batch].messages = <<>> THEN c_out
                ELSE Append(c_out, Finalized(c_objs[flusher.batch]))
    /\ flusher' = IdleFlusher
    /\ UNCHANGED <<c_pending, c_objs, adder, c_added, c_failed,
                   debVars, resolveVars, runVars, streamVars, bridgeVars>>

NextConcurrent ==
    \/ \E key \in TopicKeys, ts \in Times :
          /\ adder.n < MaxMsgs
          /\ AddEnter(PendingMessage(key, 100 + adder.n, ConcPayload, ts))
    \/ AddGet
    \/ AddCreate
    \/ AddAppend
    \/ AddReturn
    \/ \E now \in Nows : CheckExpiredEnter(now)
    \/ CheckExpiredNext
    \/ CheckExpiredDel
    \/ CheckExpiredReturn
    \/ FlushAllEnter
    \/ FlushAllNext
    \/ FlushAllClear
    \/ \E key \in TopicKeys : FlushTopicPop(key)
    \/ FlushTopicReturn

(***************************************************************************)
(* Context and engine resolution (TransportRuntime.resolve_message and the *)
(* router's default), as specified: the resolver's code is not among the   *)
(* sources, its tests are (src/tests/test_transport_runtime.py).           *)
(***************************************************************************)
\* the engines registered with the router and its default engine
Engines == {"codex", "pi"}
DefaultEngine == "codex"

\* the one configured project; any other name is unknown
KnownProjects == {"proj"}

\* The inputs of one resolution: the engine override parsed from the message,
\* the project and branch directives of the text, the transport's hints, and
\* the default engine the configured project declares, each absent or present.
ResolveArgs ==
    [override : {None} \cup {Some(e) : e \in Engines},
     directive_project : {None, Some("proj"), Some("nope")},
     directive_branch : {None, Some("feat/new")},
     project_hint : {None, Some("proj"), Some("nope")},
     branch_hint : {None, Some("feat/old")},
     project_default_engine : {None, Some("pi")}]

\* "try this source, else fall through"
OrElse(a, b) == IF a # None THEN a ELSE b

\* the RunContext: directives win over hints; no known project, no context
ResolveContext(a) ==
    LET project == OrElse(a.directive_project, a.project_hint)
        branch == OrElse(a.directive_branch, a.branch_hint)
    IN  IF project = None THEN None
        ELSE IF project[1] \notin KnownProjects THEN None
        ELSE Some([project |-> project[1], branch |-> branch])

\* the default engine the resolved project declares, if any
ProjectDefaultEngine(a, context) ==
    IF context = None THEN None ELSE a.project_default_engine

\* engine resolution with the project's default engine ahead of the override
ResolveEngineProjectFirst(a, context) ==
    OrElse(ProjectDefaultEngine(a, context), a.override)

\* engine resolution: the explicit override, else the resolved project's
\* default engine, else none
ResolveEngine(a, context) ==
    OrElse(a.override, ProjectDefaultEngine(a, context))

\* the router's resolve: the override's runner, else the default engine's
RouterResolve(engine_override) ==
    IF engine_override # None THEN engine_override[1] ELSE DefaultEngine

InitResolve ==
    /\ resolve_args \in {Some(a) : a \in ResolveArgs}
    /\ resolved = None

\* resolve_message: the ResolvedMessage, and the engine the router then runs
ResolveMessage ==
    /\ resolve_args # None
    /\ resolved = None
    /\ LET a == resolve_args[1]
           context == ResolveContext(a)
           engine_override == ResolveEngine(a, context)
       IN  resolved' = Some([context |-> context,
                             engine_override |-> engine_override,
                             engine |-> RouterResolve(engine_override)])
    /\ UNCHANGED <<resolve_args, debVars, concVars, runVars, streamVars, bridgeVars>>

NextResolve == ResolveMessage

(***************************************************************************)
(* CodexExecRunner                                                         *)
(***************************************************************************)
Threads == 1..NumThreads

\* the session_id arguments of the model: absent, empty, two sessions
SessionArgs == {None, Some(""), Some("s1"), Some("s2")}

\* Python truthiness of an Optional[str]
Truthy(opt) == opt # None /\ opt[1] # ""

\* What one run of the external process yields: its exit code, the thread_id
\* of the thread.started events folded as run folds them, the text of the
\* last agent_message, absent when there was none, and whether a line of
\* stdout made the loop raise AttributeError.
ProcOutcomes ==
    [rc : {0, 1},
     thread_id : {None, Some("s1"), Some("s2")},
     agent_text : {None, Some("answer")},
     aborted : BOOLEAN]

NoResult == [kind |-> "none"]
Placeholder == "(No agent_message captured from JSON stream.)"

\* run's result for one process outcome: LoopBody's raise, or RunOutcome on
\* the folded stream with the error's detail left out
RunResult(sid, proc) ==
    LET found == IF Truthy(proc.thread_id) THEN proc.thread_id ELSE sid
    IN  IF proc.aborted
        THEN [kind |-> "raised", error |-> "AttributeError"]
        ELSE IF proc.rc # 0
        THEN [kind |-> "raised", error |-> "codex exec failed"]
        ELSE IF ~Truthy(found)
        THEN [kind |-> "raised", error |-> "no session_id/thread_id was captured"]
        ELSE [kind |-> "ok", session_id |-> found[1],
              answer |-> IF Truthy(proc.agent_text) THEN proc.agent_text[1]
                         ELSE Placeholder]

\* _lock_for without self._locks_guard
GuardNeverHeld == TRUE

\* _lock_for's with-statement can be entered
GuardFree == guard = 0

\* one lock for every session
LockKeyShared(sid) == ""

\* the key _lock_for looks the lock up under
LockKey(sid) == sid

\* run_serialized's test: not session_id
TakesNoLock(sid) == ~Truthy(sid)

\* the lock object _lock_for stores for a new session id: a fresh one
NewLock == Len(held) + 1

\* the lock released on a normal return only
HolderAfterReturnOnly(t, res) == IF res.kind = "raised" THEN t ELSE 0

\* the lock's holder when the with-block is left, normally or by an exception
HolderAfterWith(t, res) == 0

InitRunner ==
    /\ locks = <<>>
    /\ held = <<>>
    /\ guard = 0
    /\ pc = [t \in Threads |-> "idle"]
    /\ session_id = [t \in Threads |-> None]
    /\ lock = [t \in Threads |-> 0]
    /\ result = [t \in Threads |-> NoResult]
    /\ waited = {}

\* run_serialized is entered: without a session id it calls run at once
EnterRunSerialized(t, sid) ==
    /\ pc[t] = "idle"
    /\ session_id' = [session_id EXCEPT ![t] = IF TakesNoLock(sid) THEN None ELSE sid]
    /\ pc' = [pc EXCEPT ![t] = IF TakesNoLock(sid) THEN "in_run" ELSE "lf_guard"]
    /\ UNCHANGED <<locks, held, guard, lock, result, waited>>

\* _lock_for: with self._locks_guard
LockForEnter(t) ==
    /\ pc[t] = "lf_guard"
    /\ GuardFree
    /\ guard' = t
    /\ pc' = [pc EXCEPT ![t] = "lf_check"]
    /\ UNCHANGED <<locks, held, session_id, lock, result, waited, debVars, concVars, resolveVars, streamVars, bridgeVars>>

\* _lock_for making a lock on every call, seen id or not
LockForCheckAlwaysCreates(t) ==
    /\ pc[t] = "lf_check"
    /\ pc' = [pc EXCEPT ![t] = "lf_create"]
    /\ UNCHANGED <<locks, held, guard, session_id, lock, result, waited, debVars, concVars, resolveVars, streamVars, bridgeVars>>

\* _lock_for: if session_id not in self._locks
LockForCheck(t) ==
    /\ pc[t] = "lf_check"
    /\ pc' = [pc EXCEPT ![t] =
                IF LockKey(session_id[t][1]) \in DOMAIN locks THEN "lf_return" ELSE "lf_create"]
    /\ UNCHANGED <<locks, held, guard, session_id, lock, result, waited, debVars, concVars, resolveVars, streamVars, bridgeVars>>

\* _lock_for: self._locks[session_id] = threading.Lock()
LockForCreate(t) ==
    /\ pc[t] = "lf_create"
    /\ held' = Append(held, 0)
    /\ locks' = [s \in DOMAIN locks \cup {LockKey(session_id[t][1])} |->
                    IF s = LockKey(session_id[t][1]) THEN NewLock ELSE locks[s]]
    /\ pc' = [pc EXCEPT ![t] = "lf_return"]
    /\ UNCHANGED <<guard, session_id, lock, result, waited, debVars, concVars, resolveVars, streamVars, bridgeVars>>

\* _lock_for: return self._locks[session_id], leaving the guard
LockForReturn(t) ==
    /\ pc[t] = "lf_return"
    /\ lock' = [lock EXCEPT ![t] = locks[LockKey(session_id[t][1])]]
    /\ guard' = IF guard = t THEN 0 ELSE guard
    /\ waited' = IF held[locks[LockKey(session_id[t][1])]] # 0
                 THEN waited \cup {t} ELSE waited
    /\ pc' = [pc EXCEPT ![t] = "acquire"]
    /\ UNCHANGED <<locks, held, session_id, result, debVars, concVars, resolveVars, streamVars, bridgeVars>>

\* run_serialized: with lock, then run is called
Acquire(t) ==
    /\ pc[t] = "acquire"
    /\ held[lock[t]] = 0
    /\ held' = [held EXCEPT ![lock[t]] = t]
    /\ pc' = [pc EXCEPT ![t] = "in_run"]
    /\ UNCHANGED <<locks, guard, session_id, lock, result, waited, debVars, concVars, resolveVars, streamVars, bridgeVars>>

\* run: the external process ends and run returns or raises
RunFinish(t, proc) ==
    /\ pc[t] = "in_run"
    /\ result' = [result EXCEPT ![t] = RunResult(session_id[t], proc)]
    /\ pc' = [pc EXCEPT ![t] = IF lock[t] = 0 THEN "returned" ELSE "release"]
    /\ UNCHANGED <<locks, held, guard, session_id, lock, waited, debVars, concVars, resolveVars, streamVars, bridgeVars>>

\* run_serialized: the with-block is left
Release(t) ==
    /\ pc[t] = "release"
    /\ held' = [held EXCEPT ![lock[t]] = HolderAfterWith(t, result[t])]
    /\ pc' = [pc EXCEPT ![t] = "returned"]
    /\ UNCHANGED <<locks, guard, session_id, lock, result, waited, debVars, concVars, resolveVars, streamVars, bridgeVars>>

\* a thread calls run_serialized(prompt, sid)
Call(t, sid) ==
    /\ EnterRunSerialized(t, sid)
    /\ UNCHANGED <<debVars, concVars, resolveVars, streamVars, bridgeVars>>

\* the caller has the result; the thread is free for the next call
CallerDone(t) ==
    /\ pc[t] = "returned"
    /\ pc' = [pc EXCEPT ![t] = "idle"]
    /\ session_id' = [session_id EXCEPT ![t] = None]
    /\ lock' = [lock EXCEPT ![t] = 0]
    /\ result' = [result EXCEPT ![t] = NoResult]
    /\ waited' = waited \ {t}
    /\ UNCHANGED <<locks, held, guard, debVars, concVars, resolveVars, streamVars, bridgeVars>>

\* the steps inside run_serialized
RunnerStep(t) ==
    \/ LockForEnter(t)
    \/ LockForCheck(t)
    \/ LockForCreate(t)
    \/ LockForReturn(t)
    \/ Acquire(t)
    \/ \E proc \in ProcOutcomes : RunFinish(t, proc)
    \/ Release(t)

NextRunner ==
    \E t \in Threads :
        \/ \E sid \in SessionArgs : Call(t, sid)
        \/ RunnerStep(t)
        \/ CallerDone(t)

(***************************************************************************)
(* CodexExecRunner.run: the event stream of one external process           *)
(***************************************************************************)
\* The values json.loads returns.  JNone is Python's None: JSON null, and
\* what dict.get gives for a missing key.
JNone == [t |-> "none"]
JStr(s) == [t |-> "str", s |-> s]
\* a number other than zero
JNum == [t |-> "num"]
\* a dict; f holds its items
JObj(f) == [t |-> "obj", f |-> f]

\* A line of stdout: whitespace only, text that is not JSON, or a JSON text,
\* kept as the value it denotes.
BlankLine == [kind |-> "blank"]
GarbageLine == [kind |-> "garbage"]
JsonLine(v) == [kind |-> "json", value |-> v]

\* {"type": "thread.started", "thread_id": s}
ThreadStartedLine(s) ==
    JsonLine(JObj([type |-> JStr("thread.started"), thread_id |-> JStr(s)]))
\* {"type": "session.started", "session_id": s}
SessionStartedLine(s) ==
    JsonLine(JObj([type |-> JStr("session.started"), session_id |-> JStr(s)]))
\* {"type": "item.completed", "item": item}
ItemCompletedLine(item) ==
    JsonLine(JObj([type |-> JStr("item.completed"), item |-> item]))
\* {"type": "agent_message", "text": text}
AgentMessage(text) == JObj([type |-> JStr("agent_message"), text |-> text])

\* the lines a process of the model writes
Lines ==
    { BlankLine,
      GarbageLine,
      JsonLine(JNum),
      ThreadStartedLine("s1"),
      ThreadStartedLine("s2"),
      JsonLine(JObj([type |-> JStr("thread.started")])),
      SessionStartedLine("s1"),
      ItemCompletedLine(AgentMessage(JStr("t1"))),
      ItemCompletedLine(AgentMessage(JStr("t2"))),
      ItemCompletedLine(AgentMessage(JStr(""))),
      ItemCompletedLine(AgentMessage(JNum)),
      ItemCompletedLine(JObj([type |-> JStr("reasoning"), text |-> JStr("r")])),
      ItemCompletedLine(JStr("x")) }

\* the stdout streams of the model
Streams == UNION {[1..n -> Lines] : n \in 0..MaxLines}
\* how many lines the process writes to stderr: none, as many as the tail
\* keeps, one more
StderrLens == {0, TailLimit, TailLimit + 1}
\* how the processes of the model end: the exit code and the lines on stderr
ProcEnds ==
    {[code |-> 0, stderr |-> 0]} \cup {[code |-> 1, stderr |-> n] : n \in StderrLens}
\* the session_id arguments run is called with: absent, empty, a session
RunArgs == {None, Some(""), Some("s1")}

\* line.strip() is empty
IsBlank(line) == line.kind = "blank"

\* json.loads(line): the value, None where it raises JSONDecodeError
JsonLoads(line) == IF line.kind = "json" THEN Some(line.value) ELSE None

\* whether v has a .get: it is a dict
IsDict(v) == v.t = "obj"

\* isinstance(v, str)
IsStr(v) == v.t = "str"

\* dict.get(key)
Get(v, key) == IF key \in DOMAIN v.f THEN v.f[key] ELSE JNone

\* Python truthiness of a JSON value
JTruthy(v) ==
    CASE v.t = "none" -> FALSE
      [] v.t = "str" -> v.s # ""
      [] v.t = "num" -> TRUE
      [] v.t = "obj" -> DOMAIN v.f # {}

\* the session event named "session.started"
SessionEventTypeSessionStarted == "session.started"

\* the event type run takes the session id from
SessionEventType == "thread.started"
\* the value run takes as the session id
SessionIdOf(evt) == Get(evt, "thread_id")

\* One pass of run's for loop over a line of stdout: the locals after it, and
\* whether it raised.  evt.get and item.get raise AttributeError on a value
\* that is not a dict; run catches json.JSONDecodeError only.
LoopBody(found, last, line) ==
    LET same == [raised |-> FALSE, found_session |-> found,
                 last_agent_text |-> last]
    IN  IF IsBlank(line) THEN same
        ELSE IF JsonLoads(line) = None THEN same
        ELSE
          LET evt == JsonLoads(line)[1]
          IN  IF ~IsDict(evt)
              THEN [raised |-> TRUE, found_session |-> found,
                    last_agent_text |-> last]
              ELSE
                LET found2 ==
                      IF /\ Get(evt, "type") = JStr(SessionEventType)
                         /\ JTruthy(SessionIdOf(evt))
                      THEN Some(SessionIdOf(evt).s)
                      ELSE found
                    item == IF JTruthy(Get(evt, "item")) THEN Get(evt, "item")
                            ELSE JObj(<<>>)
                IN  IF Get(evt, "type") # JStr("item.completed")
                    THEN [raised |-> FALSE, found_session |-> found2,
                          last_agent_text |-> last]
                    ELSE IF ~IsDict(item)
                    THEN [raised |-> TRUE, found_session |-> found2,
                          last_agent_text |-> last]
                    ELSE IF /\ Get(item, "type") = JStr("agent_message")
                            /\ IsStr(Get(item, "text"))
                    THEN [raised |-> FALSE, found_session |-> found2,
                          last_agent_text |-> Some(Get(item, "text").s)]
                    ELSE [raised |-> FALSE, found_session |-> found2,
                          last_agent_text |-> last]

\* stderr_lines[-200:] of n lines numbered from 1: <<first, last>>, the
\* numbers of the first and the last line kept (first > last: none)
StderrTail(n) == <<IF n > TailLimit THEN n - TailLimit + 1 ELSE 1, n>>

\* how many lines the draining thread may have appended to stderr_lines when
\* run reads it: all of them, or fewer when t.join(timeout=2.0) timed out
Drained(n) == {m \in StderrLens : m <= n}

\* run returning an agent message's text as it is, the empty one too
RunOutcomeKeepsEmptyText(found, last, code, nerr) ==
    IF code # 0
    THEN [kind |-> "raised", error |-> "codex exec failed", rc |-> code,
          tail |-> StderrTail(nerr)]
    ELSE IF ~Truthy(found)
    THEN [kind |-> "raised", error |-> "no session_id/thread_id was captured"]
    ELSE [kind |-> "ok", session_id |-> found[1],
          answer |-> IF last # None THEN last[1] ELSE Placeholder]

\* run after the loop: what it raises or returns
RunOutcome(found, last, code, nerr) ==
    IF code # 0
    THEN [kind |-> "raised", error |-> "codex exec failed", rc |-> code,
          tail |-> StderrTail(nerr)]
    ELSE IF ~Truthy(found)
    THEN [kind |-> "raised", error |-> "no session_id/thread_id was captured"]
    ELSE [kind |-> "ok", session_id |-> found[1],
          answer |-> IF Truthy(last) THEN last[1] ELSE Placeholder]

\* run is called: the process is started, the locals are set
InitRun ==
    /\ run_session_id \in RunArgs
    /\ proc_stdout \in Streams
    /\ \E e \in ProcEnds : proc_exit = e.code /\ proc_stderr = e.stderr
    /\ run_pc = "reading"
    /\ line_no = 0
    /\ found_session = run_session_id
    /\ last_agent_text = None
    /\ rc = None
    /\ run_result = NoResult

\* for line in proc.stdout: one pass
ReadLine ==
    /\ run_pc = "reading"
    /\ line_no < Len(proc_stdout)
    /\ LET after == LoopBody(found_session, last_agent_text,
                             proc_stdout[line_no + 1])
       IN  /\ line_no' = line_no + 1
           /\ found_session' = after.found_session
           /\ last_agent_text' = after.last_agent_text
           /\ IF after.raised
              THEN /\ run_pc' = "done"
                   /\ run_result' = [kind |-> "raised", error |-> "AttributeError"]
              ELSE UNCHANGED <<run_pc, run_result>>
    /\ UNCHANGED <<run_session_id, proc_stdout, proc_exit, proc_stderr, rc,
                   debVars, concVars, resolveVars, runVars, bridgeVars>>

\* the stream ended: rc = proc.wait()
ProcWait ==
    /\ run_pc = "reading"
    /\ line_no = Len(proc_stdout)
    /\ rc' = Some(proc_exit)
    /\ run_pc' = "waiting"
    /\ UNCHANGED <<run_session_id, proc_stdout, proc_exit, proc_stderr, line_no,
                   found_session, last_agent_text, run_result,
                   debVars, concVars, resolveVars, runVars, bridgeVars>>

\* t.join(timeout=2.0), then run raises or returns
RunReturn(nerr) ==
    /\ run_pc = "waiting"
    /\ run_result' = RunOutcome(found_session, last_agent_text, rc[1], nerr)
    /\ run_pc' = "done"
    /\ UNCHANGED <<run_session_id, proc_stdout, proc_exit, proc_stderr, line_no,
                   found_session, last_agent_text, rc,
                   debVars, concVars, resolveVars, runVars, bridgeVars>>

NextRun ==
    \/ ReadLine
    \/ ProcWait
    \/ \E nerr \in Drained(proc_stderr) : RunReturn(nerr)


(***************************************************************************)
(* main(): the Telegram loop and handle                                    *)
(***************************************************************************)
Chats == {1, 2}

\* what an update's message is: a user's text, a message without text,
\* a message sent by a bot
UpdateKinds == {"text", "no_text", "from_bot"}

NoJob == [chat_id |-> 0, user_msg_id |-> 0, text |-> "", resume_session |-> None]

\* RouteStore.resolve(chat_id, message_id): the route, if one was linked
StoreResolve(st, chat, mid) ==
    IF <<chat, mid>> \in DOMAIN st THEN Some(st[<<chat, mid>>]) ELSE None

\* RouteStore.link(chat_id, message_id, route_type, route_id, meta)
StoreLink(st, chat, mid, rtype, rid, meta) ==
    [k \in DOMAIN st \cup {<<chat, mid>>} |->
        IF k = <<chat, mid>>
        THEN [route_type |-> rtype, route_id |-> rid, meta |-> meta]
        ELSE st[k]]

\* TelegramClient.send_message_chunked: the ids of the k messages it sent
SentIds(chat, k) == [i \in 1..k |-> nextMsgId[chat] + i - 1]

\* main's filters on an update: text present, chat allowed, not from a bot
Accepted(chat, kind) ==
    /\ kind # "no_text"
    /\ ~(allowed # None /\ chat \notin allowed[1])
    /\ kind # "from_bot"

\* main: the session a reply is routed to
ResumeSessionFor(chat, reply) ==
    IF reply = None THEN None
    ELSE LET route == StoreResolve(store, chat, reply[1])
         IN  IF route # None /\ route[1].route_type = "exec"
             THEN Some(route[1].route_id)
             ELSE None

\* handle: the text of the reply for run's outcome
ReplyText(res) ==
    IF res.kind = "ok" THEN <<res.answer>> ELSE <<"Error:", res.error>>

\* handle linking every sent message to the session it was called with
LinkedRouteIdOfArgument(res, resume_session) ==
    IF Truthy(resume_session) THEN resume_session[1] ELSE "unknown"

\* handle: the route id a sent message is linked to
LinkedRouteId(res, resume_session) ==
    IF res.kind = "ok" THEN res.session_id
    ELSE IF Truthy(resume_session) THEN resume_session[1]
    ELSE "unknown"

\* handle: the metadata a sent message is linked with
LinkedMeta(res) == IF res.kind = "ok" THEN "workspace" ELSE "error"

\* one send_message_chunked call of handle, as the history keeps it: the
\* call's arguments, the ids of the messages sent, and the handle call and
\* run's outcome it was made for
SendCall(t, k) ==
    [chat_id |-> job[t].chat_id,
     reply_to_message_id |-> job[t].user_msg_id,
     text |-> ReplyText(result[t]),
     ids |-> SentIds(job[t].chat_id, k),
     call |-> job[t],
     outcome |-> result[t]]

\* handle without its except clause: a failed run sends nothing
HandleSentOnSuccessOnly(t, k) ==
    IF result[t].kind = "ok" THEN {SendCall(t, k)} ELSE {}

\* handle: the send_message_chunked call made for run's outcome, the answer in
\* the try block or the error in the except clause
HandleSent(t, k) == {SendCall(t, k)}

InitBridge ==
    /\ allowed \in {None, Some({1})}
    /\ offset = None
    /\ queue = <<>>
    /\ store = <<>>
    /\ job = [t \in Threads |-> NoJob]
    /\ toLink = [t \in Threads |-> <<>>]
    /\ nextMsgId = [c \in Chats |-> 1]
    /\ nextUpdateId = 1
    /\ sent = {}
    /\ submitted = <<>>
    /\ linkCalls = {}
    /\ done = {}

\* main's loop body for one update: a message arrives in a chat, possibly as a
\* reply to an earlier message of that chat, and is filtered, routed, submitted
PollUpdate(chat, kind, reply) ==
    LET user_msg_id == nextMsgId[chat]
        resume_session == ResumeSessionFor(chat, reply)
        call == [chat_id |-> chat, user_msg_id |-> user_msg_id, text |-> "hi",
                 resume_session |-> resume_session]
    IN  /\ nextMsgId' = [nextMsgId EXCEPT ![chat] = user_msg_id + 1]
        /\ nextUpdateId' = nextUpdateId + 1
        /\ offset' = Some(nextUpdateId + 1)
        /\ IF Accepted(chat, kind)
           THEN /\ queue' = Append(queue, call)
                /\ submitted' = Append(submitted,
                      [call |-> call, reply_to |-> reply,
                       linked |-> reply # None /\ <<chat, reply[1]>> \in linkCalls])
           ELSE UNCHANGED <<queue, submitted>>
        /\ UNCHANGED <<allowed, store, job, toLink, sent, linkCalls, done,
                       debVars, concVars, resolveVars, runVars, streamVars>>

\* main: get_updates raised; the loop sleeps and polls again
PollFailed == UNCHANGED vars

\* a pool worker starts handle(...), which calls run_serialized
TakeJob(t) ==
    /\ queue # <<>>
    /\ EnterRunSerialized(t, Head(queue).resume_session)
    /\ job' = [job EXCEPT ![t] = Head(queue)]
    /\ queue' = Tail(queue)
    /\ UNCHANGED <<allowed, offset, store, toLink, nextMsgId, nextUpdateId, sent,
                   submitted, linkCalls, done, debVars, concVars, resolveVars, streamVars>>

\* handle: run_serialized returned or raised; the answer or the error is sent
HandleSend(t, k) ==
    /\ pc[t] = "returned"
    /\ sent' = sent \cup HandleSent(t, k)
    /\ toLink' = [toLink EXCEPT ![t] =
                    IF HandleSent(t, k) = {} THEN <<>> ELSE SentIds(job[t].chat_id, k)]
    /\ nextMsgId' = [nextMsgId EXCEPT ![job[t].chat_id] =
                    IF HandleSent(t, k) = {} THEN @ ELSE @ + k]
    /\ pc' = [pc EXCEPT ![t] = "link"]
    /\ UNCHANGED <<locks, held, guard, session_id, lock, result, waited,
                   allowed, offset, queue, store, job, nextUpdateId, submitted,
                   linkCalls, done, debVars, concVars, resolveVars, streamVars>>

\* handle: store.link for the next sent message
HandleLink(t) ==
    /\ pc[t] = "link"
    /\ toLink[t] # <<>>
    /\ store' = StoreLink(store, job[t].chat_id, Head(toLink[t]), "exec",
                          LinkedRouteId(result[t], job[t].resume_session),
                          LinkedMeta(result[t]))
    /\ linkCalls' = linkCalls \cup {<<job[t].chat_id, Head(toLink[t])>>}
    /\ toLink' = [toLink EXCEPT ![t] = Tail(@)]
    /\ UNCHANGED <<runVars, allowed, offset, queue, job, nextMsgId, nextUpdateId,
                   sent, submitted, done, debVars, concVars, resolveVars, streamVars>>

\* handle returns; the worker is free for the next submitted call
HandleDone(t) ==
    /\ pc[t] = "link"
    /\ toLink[t] = <<>>
    /\ done' = done \cup {[call |-> job[t], outcome |-> result[t]]}
    /\ job' = [job EXCEPT ![t] = NoJob]
    /\ pc' = [pc EXCEPT ![t] = "idle"]
    /\ session_id' = [session_id EXCEPT ![t] = None]
    /\ lock' = [lock EXCEPT ![t] = 0]
    /\ result' = [result EXCEPT ![t] = NoResult]
    /\ waited' = waited \ {t}
    /\ UNCHANGED <<locks, held, guard, allowed, offset, queue, store, toLink,
                   nextMsgId, nextUpdateId, sent, submitted, linkCalls, debVars, concVars, resolveVars, streamVars>>

NextBridge ==
    \/ \E chat \in Chats, kind \in UpdateKinds :
         \E reply \in {None} \cup {Some(m) : m \in 1..(nextMsgId[chat] - 1)} :
            /\ nextUpdateId <= MaxUpdates
            /\ PollUpdate(chat, kind, reply)
    \/ PollFailed
    \/ \E t \in Threads :
          \/ TakeJob(t)
          \/ RunnerStep(t)
          \/ \E k \in 1..MaxChunks : HandleSend(t, k)
          \/ HandleLink(t)
          \/ HandleDone(t)

(***************************************************************************)
(* Specifications                                                          *)
(***************************************************************************)
\* the debouncer before its first call, with the default window
DebouncerAtRest ==
    /\ window_s = Window
    /\ pending = <<>>
    /\ arrivals = <<>>
    /\ emitted = <<>>
    /\ lastCall = [op |-> "init", ret |-> None, raised |-> FALSE]

\* main() not started
BridgeAtRest ==
    /\ allowed = None
    /\ offset = None
    /\ queue = <<>>
    /\ store = <<>>
    /\ job = [t \in Threads |-> NoJob]
    /\ toLink = [t \in Threads |-> <<>>]
    /\ nextMsgId = [c \in Chats |-> 1]
    /\ nextUpdateId = 1
    /\ sent = {}
    /\ submitted = <<>>
    /\ linkCalls = {}
    /\ done = {}

\* run not called
RunAtRest ==
    /\ run_session_id = None
    /\ proc_stdout = <<>>
    /\ proc_exit = 0
    /\ proc_stderr = 0
    /\ run_pc = "idle"
    /\ line_no = 0
    /\ found_session = None
    /\ last_agent_text = None
    /\ rc = None
    /\ run_result = NoResult

\* no thread has called the debouncer
ConcurrentAtRest == InitConcurrent

\* resolve_engine and resolve_message not called
ResolveAtRest ==
    /\ resolve_args = None
    /\ resolved = None

\* everything but the debouncer, at rest
OthersAtRest == ConcurrentAtRest /\ ResolveAtRest

\* the debouncer alone
InitSpecDebouncer == InitDebouncer /\ InitRunner /\ RunAtRest /\ BridgeAtRest /\ OthersAtRest

\* the debouncer called by an adding thread and a flushing thread
InitSpecConcurrent ==
    DebouncerAtRest /\ InitConcurrent /\ ResolveAtRest /\ InitRunner /\ RunAtRest /\ BridgeAtRest
SpecConcurrent == InitSpecConcurrent /\ [][NextConcurrent]_vars
SpecDebouncer == InitSpecDebouncer /\ [][NextDebouncer]_vars

\* one resolution, over every presence and absence of its inputs
InitSpecResolve ==
    DebouncerAtRest /\ ConcurrentAtRest /\ InitResolve /\ InitRunner /\ RunAtRest /\ BridgeAtRest
SpecResolve == InitSpecResolve /\ [][NextResolve]_vars

\* threads calling run_serialized on one runner
InitSpecRunner == DebouncerAtRest /\ InitRunner /\ RunAtRest /\ BridgeAtRest /\ OthersAtRest
SpecRunner == InitSpecRunner /\ [][NextRunner]_vars

\* Threads are scheduled fairly and every external process terminates: a step
\* of run_serialized that stays possible is taken, and a thread that can take
\* its session's lock again and again does take it.
FairRunner ==
    \A t \in Threads :
        /\ WF_vars(LockForEnter(t))
        /\ WF_vars(LockForCheck(t))
        /\ WF_vars(LockForCreate(t))
        /\ WF_vars(LockForReturn(t))
        /\ SF_vars(Acquire(t))
        /\ WF_vars(\E proc \in ProcOutcomes : RunFinish(t, proc))
        /\ WF_vars(Release(t))
        /\ WF_vars(CallerDone(t))

FairSpecRunner == SpecRunner /\ FairRunner

\* one call of run, over every stream, exit code and session argument
InitSpecRun == DebouncerAtRest /\ InitRunner /\ InitRun /\ BridgeAtRest /\ OthersAtRest
SpecRun == InitSpecRun /\ [][NextRun]_vars

\* the bridge: the Telegram loop and its pool of workers on one runner
InitSpecBridge == DebouncerAtRest /\ InitRunner /\ RunAtRest /\ InitBridge /\ OthersAtRest
SpecBridge == InitSpecBridge /\ [][NextBridge]_vars

(***************************************************************************)
(* Properties of the debouncer.  They compare what the debouncer holds and *)
(* returned with the history of the calls made on it.                      *)
(***************************************************************************)
\* the topic of a message, an arrival or a batch, read off its own fields
KeyOf(r) == <<r.chat_id, r.thread_id>>

SetMax(S) == CHOOSE x \in S : \A y \in S : y <= x

\* the arrivals lo+1..hi of one topic, in arrival order
HistorySlice(key, lo, hi) ==
    SelectSeq(SubSeq(arrivals, lo + 1, hi), LAMBDA a : KeyOf(a) = key)

\* the arrival count when the topic of emitted[i] was finalized the time before
PrevAt(i) ==
    LET S == {emitted[j].at : j \in {j \in 1..(i - 1) :
                  KeyOf(emitted[j].batch) = KeyOf(emitted[i].batch)}}
    IN  IF S = {} THEN 0 ELSE SetMax(S)

\* the arrivals of the accumulation cycle that emitted[i] closed
CycleOf(i) == HistorySlice(KeyOf(emitted[i].batch), PrevAt(i), emitted[i].at)

\* the arrivals of a topic since it was last finalized
PendingCycle(key) ==
    LET S == {emitted[j].at : j \in {j \in 1..Len(emitted) :
                  KeyOf(emitted[j].batch) = key}}
    IN  HistorySlice(key, IF S = {} THEN 0 ELSE SetMax(S), Len(arrivals))

\* texts joined by a single newline, built from the right
RECURSIVE NewlineJoined(_)
NewlineJoined(texts) ==
    IF Len(texts) = 1 THEN texts[1]
    ELSE NewlineJoined(SubSeq(texts, 1, Len(texts) - 1))
            \o <<"\n">> \o texts[Len(texts)]

TextsOf(msgs) == [n \in 1..Len(msgs) |-> msgs[n].text]
IdsOf(msgs) == [n \in 1..Len(msgs) |-> msgs[n].user_msg_id]
NumLines(text) == 1 + Cardinality({k \in 1..Len(text) : text[k] = "\n"})

\* a batch is the one its accumulation cycle calls for
BatchMatches(b, cycle) ==
    /\ cycle # <<>>
    /\ b.combined_text = NewlineJoined(TextsOf(cycle))
    /\ b.first_msg_id = cycle[1].user_msg_id
    /\ b.last_msg_id = cycle[Len(cycle)].user_msg_id

\* C2: with window > 0, the messages of one topic that arrive with no
\* finalization in between come out as exactly one batch: every batch returned
\* is the newline join, in arrival order, of the arrivals of its cycle, with the
\* first and last arrival's ids; and for every pending topic, check_expired(now)
\* with now >= last timestamp + window returns exactly one batch for it, of
\* that content.
C2_OneBatchJoinedInArrivalOrder ==
    window_s > 0 =>
      /\ \A i \in 1..Len(emitted) : BatchMatches(emitted[i].batch, CycleOf(i))
      /\ \A e \in 1..Len(pending), now \in Nows :
            LET msgs == pending[e].messages
                r == ExpiredBatches(pending, now)
                mine == {i \in 1..Len(r) : KeyOf(r[i]) = pending[e].key}
            IN  now >= msgs[Len(msgs)].timestamp + window_s =>
                  /\ Cardinality(mine) = 1
                  /\ \A i \in mine : BatchMatches(r[i], PendingCycle(pending[e].key))

\* C2's case: check_expired returned one batch made of two messages.
C2_Witness ==
    /\ window_s > 0
    /\ lastCall.op = "check_expired"
    /\ Len(lastCall.ret) = 1
    /\ lastCall.ret[1].first_msg_id # lastCall.ret[1].last_msg_id
    /\ Len(lastCall.ret[1].combined_text) = 3

\* how often a message id occurs in the pending batches and the returned ones
Occurrences(id) ==
    Cardinality({<<e, j>> \in (1..Len(pending)) \X (1..MaxMsgs + 1) :
                    j <= Len(pending[e].messages)
                    /\ pending[e].messages[j].user_msg_id = id})
    + Cardinality({<<i, j>> \in (1..Len(emitted)) \X (1..MaxMsgs + 1) :
                    j <= Len(emitted[i].ids) /\ emitted[i].ids[j] = id})

\* C3: with window > 0, after any sequence of calls every added message is in
\* exactly one place, a pending batch or a returned batch; no topic has two
\* pending batches; a returned batch holds exactly the arrivals of its cycle;
\* and the pending batch of a topic holds exactly the arrivals since the topic
\* was last finalized, none of the earlier ones.
C3_EveryMessageInExactlyOnePlace ==
    window_s > 0 =>
      /\ \A n \in 1..Len(arrivals) : Occurrences(arrivals[n].user_msg_id) = 1
      /\ \A e1, e2 \in 1..Len(pending) :
            pending[e1].key = pending[e2].key => e1 = e2
      /\ \A e \in 1..Len(pending) :
            /\ pending[e].messages # <<>>
            /\ IdsOf(pending[e].messages) = IdsOf(PendingCycle(pending[e].key))
      /\ \A i \in 1..Len(emitted) :
            /\ emitted[i].ids = IdsOf(CycleOf(i))
            /\ NumLines(emitted[i].batch.combined_text) = Len(emitted[i].ids)

\* C3's case: a topic was finalized and a later arrival is pending for it.
C3_Witness ==
    /\ window_s > 0
    /\ \E i \in 1..Len(emitted), e \in 1..Len(pending) :
          KeyOf(emitted[i].batch) = pending[e].key

\* C4: with window > 0 and a single pending topic, next_deadline() is the last
\* arrival's timestamp plus the window; check_expired(now) returns nothing and
\* leaves the batch pending for every now before it, and returns exactly that
\* topic's batch for every now at or after it.
C4_DeadlineFollowsLastArrival ==
    (window_s > 0 /\ Len(pending) = 1) =>
      LET msgs == pending[1].messages
          due == msgs[Len(msgs)].timestamp + window_s
      IN  /\ NextDeadlineOf(pending) = Some(due)
          /\ ~NextDeadlineRaises(pending)
          /\ lastCall.op = "next_deadline" => lastCall.ret = Some(due)
          /\ \A now \in Nows :
                /\ now < due =>
                      /\ ExpiredBatches(pending, now) = <<>>
                      /\ PendingAfterExpiry(pending, now) = pending
                /\ now >= due =>
                      /\ Len(ExpiredBatches(pending, now)) = 1
                      /\ KeyOf(ExpiredBatches(pending, now)[1]) = pending[1].key
                      /\ PendingAfterExpiry(pending, now) = <<>>

\* C4's case: next_deadline() after two arrivals whose timestamps differ.
C4_Witness ==
    /\ window_s > 0
    /\ Len(pending) = 1
    /\ Len(pending[1].messages) = 2
    /\ pending[1].messages[1].timestamp > pending[1].messages[2].timestamp
    /\ lastCall.op = "next_deadline"

\* the arrival with a given message id
ArrivalOf(id) == arrivals[CHOOSE n \in 1..Len(arrivals) : arrivals[n].user_msg_id = id]

\* C5: every batch returned holds messages of one topic only: chat_id and
\* thread_id of the batch are those of every message that went into it, and
\* every message waiting in a pending batch has that batch's topic.
C5_BatchesNeverMixTopics ==
    /\ \A i \in 1..Len(emitted) : \A j \in 1..Len(emitted[i].ids) :
          /\ ArrivalOf(emitted[i].ids[j]).chat_id = emitted[i].batch.chat_id
          /\ ArrivalOf(emitted[i].ids[j]).thread_id = emitted[i].batch.thread_id
    /\ \A e \in 1..Len(pending) : \A j \in 1..Len(pending[e].messages) :
          KeyOf(pending[e].messages[j]) = pending[e].key

\* C5's case: one call returned two batches, for the same chat, one with a
\* thread id and one without.
C5_Witness ==
    /\ window_s > 0
    /\ Len(emitted) = 2
    /\ emitted[1].at = emitted[2].at
    /\ emitted[1].batch.chat_id = emitted[2].batch.chat_id
    /\ emitted[1].batch.thread_id = None
    /\ emitted[2].batch.thread_id # None

\* C6: on every finalization path the batch's resume_token, context and
\* engine_override are those of the first arrival of its accumulation cycle.
C6_HintsOfFirstMessage ==
    \A i \in 1..Len(emitted) :
       LET c == CycleOf(i)
           b == emitted[i].batch
       IN  /\ c # <<>>
           /\ b.resume_token = c[1].resume_token
           /\ b.context = c[1].context
           /\ b.engine_override = c[1].engine_override

\* C6's case: flush_topic returned a batch of two messages, the first without
\* routing hints and the second with all three.
C6_Witness ==
    /\ lastCall.op = "flush_topic"
    /\ lastCall.ret # None
    /\ lastCall.ret[1].resume_token = None
    /\ lastCall.ret[1].context = None
    /\ lastCall.ret[1].engine_override = None
    /\ Len(arrivals) = 2
    /\ arrivals[2].resume_token # None
    /\ arrivals[2].context # None
    /\ arrivals[2].engine_override # None
    /\ lastCall.ret[1].last_msg_id = arrivals[2].user_msg_id

\* the entries of a pending dict, and its keys
EntriesOf(p) == {p[i] : i \in 1..Len(p)}
KeysOf(p) == {p[i].key : i \in 1..Len(p)}

\* seq holds exactly one batch for each entry of the set due, made of the
\* entry's messages
OneBatchEach(seq, due) ==
    /\ Len(seq) = Cardinality(due)
    /\ \A e \in due :
          \E j \in 1..Len(seq) :
             /\ KeyOf(seq[j]) = e.key
             /\ BatchMatches(seq[j], e.messages)

\* C17: check_expired(now) returns exactly the batches of the topics whose
\* deadline is <= now, each once, and removes exactly those topics; a topic
\* whose deadline is > now keeps its messages and its deadline; a second
\* check_expired(now) right after it returns nothing.
C17_CheckExpiredExactlyTheDue ==
    [][\A now \in Nows :
          CheckExpired(now) =>
             LET due == {e \in EntriesOf(pending) : e.deadline <= now}
             IN  /\ OneBatchEach(lastCall'.ret, due)
                 /\ EntriesOf(pending') = EntriesOf(pending) \ due
                 /\ Len(pending') = Len(pending) - Cardinality(due)
                 /\ \A e \in EntriesOf(pending') : e.deadline > now
                 /\ ExpiredBatches(pending', now) = <<>>]_vars

\* C17's case: check_expired returned the batch of one topic and left
\* another topic, not yet due, pending.
C17_Witness ==
    /\ lastCall.op = "check_expired"
    /\ Len(lastCall.ret) = 1
    /\ Len(pending) = 1
    /\ KeyOf(lastCall.ret[1]) # pending[1].key

\* C18: flush_all() returns one batch for every pending topic whatever its
\* deadline and leaves nothing pending: right after it next_deadline() is
\* none, check_expired(now) is empty for every now, and a second flush_all()
\* returns nothing.
C18_FlushAllLeavesNothing ==
    [][FlushAll =>
          /\ OneBatchEach(lastCall'.ret, EntriesOf(pending))
          /\ pending' = <<>>
          /\ NextDeadlineOf(pending') = None
          /\ ~NextDeadlineRaises(pending')
          /\ \A now \in Nows : ExpiredBatches(pending', now) = <<>>
          /\ FlushedBatches(pending') = <<>>]_vars

\* C18's case: flush_all returned the batches of two topics and nothing is
\* pending.
C18_Witness ==
    /\ lastCall.op = "flush_all"
    /\ Len(lastCall.ret) = 2
    /\ pending = <<>>
    /\ lastCall.ret[1].first_msg_id # lastCall.ret[2].first_msg_id

\* C19: flush_topic(key) returns the batch of that topic and removes it when
\* the topic is pending, returns none and changes nothing when it is not; in
\* both cases every other topic keeps its messages and its deadline.
C19_FlushTopicTouchesOneTopic ==
    [][\A key \in TopicKeys :
          FlushTopic(key) =>
             LET own == {e \in EntriesOf(pending) : e.key = key}
             IN  /\ own # {} =>
                       /\ lastCall'.ret # None
                       /\ OneBatchEach(<<lastCall'.ret[1]>>, own)
                 /\ own = {} =>
                       /\ lastCall'.ret = None
                       /\ pending' = pending
                       /\ emitted' = emitted
                 /\ EntriesOf(pending') = EntriesOf(pending) \ own
                 /\ Len(pending') = Len(pending) - Cardinality(own)]_vars

\* C19's case: flush_topic returned one topic's batch while another topic
\* stayed pending.
C19_Witness ==
    /\ lastCall.op = "flush_topic"
    /\ lastCall.ret # None
    /\ Len(pending) = 1
    /\ KeyOf(lastCall.ret[1]) # pending[1].key

\* C20: with window 0 add_message returns a batch made of the one message:
\* its text, its id as first and last id, its own chat, thread, resume token,
\* context and engine override; nothing is ever pending, so next_deadline()
\* is none and check_expired, flush_all and flush_topic return nothing.
C20_WindowZeroBypasses ==
    window_s = 0 =>
        /\ pending = <<>>
        /\ lastCall.op = "add_message" =>
              /\ lastCall.ret # None
              /\ LET b == lastCall.ret[1]
                     m == arrivals[Len(arrivals)]
                 IN  /\ b.combined_text = m.text
                     /\ b.first_msg_id = m.user_msg_id
                     /\ b.last_msg_id = m.user_msg_id
                     /\ b.chat_id = m.chat_id
                     /\ b.thread_id = m.thread_id
                     /\ b.resume_token = m.resume_token
                     /\ b.context = m.context
                     /\ b.engine_override = m.engine_override
        /\ lastCall.op = "next_deadline" =>
              lastCall.ret = None /\ ~lastCall.raised
        /\ lastCall.op \in {"check_expired", "flush_all"} => lastCall.ret = <<>>
        /\ lastCall.op = "flush_topic" => lastCall.ret = None

\* C20's case: with window 0 two messages were added, each returned as its
\* own batch, the first with its routing hints, and flush_all then returned
\* nothing.
C20_Witness ==
    /\ window_s = 0
    /\ Len(emitted) = 2
    /\ emitted[1].batch.resume_token # None
    /\ emitted[1].batch.first_msg_id = emitted[1].batch.last_msg_id
    /\ lastCall.op = "flush_all"
    /\ lastCall.ret = <<>>

\* C21: in every reachable state every entry of the pending map holds at
\* least one message, so next_deadline() never fails; it returns none exactly
\* when no topic is pending and otherwise the smallest deadline of the pending
\* topics.
C21_NextDeadlineIsTheMinimum ==
    /\ \A e \in 1..Len(pending) : pending[e].messages # <<>>
    /\ ~NextDeadlineRaises(pending)
    /\ (NextDeadlineOf(pending) = None) <=> (pending = <<>>)
    /\ pending # <<>> =>
          /\ \E e \in 1..Len(pending) :
                NextDeadlineOf(pending) = Some(pending[e].deadline)
          /\ \A e \in 1..Len(pending) :
                NextDeadlineOf(pending)[1] <= pending[e].deadline
    /\ lastCall.op = "next_deadline" =>
          /\ ~lastCall.raised
          /\ lastCall.ret = NextDeadlineOf(pending)

\* C21's case: next_deadline() with two topics pending, the one added first
\* having the later deadline; it returned the deadline of the second.
C21_Witness ==
    /\ lastCall.op = "next_deadline"
    /\ Len(pending) = 2
    /\ pending[1].deadline > pending[2].deadline
    /\ lastCall.ret = Some(pending[2].deadline)

(***************************************************************************)
(* Properties of the debouncer under two calling threads.                  *)
(***************************************************************************)
\* how often a message id occurs in the batches the dict refers to and in the
\* batches returned
PlacesOf(id) ==
    Cardinality({<<e, j>> \in (1..Len(c_pending)) \X (1..MaxMsgs + 1) :
                    /\ j <= Len(c_objs[c_pending[e].ref].messages)
                    /\ c_objs[c_pending[e].ref].messages[j].user_msg_id = id})
    + Cardinality({<<i, j>> \in (1..Len(c_out)) \X (1..MaxMsgs + 1) :
                    j <= Len(c_out[i].ids) /\ c_out[i].ids[j] = id})

\* the adder is between add_message's first and last access of the pending
\* state; the flusher is inside a call
AdderInside == adder.pc \in {"create", "append", "deadline"}
FlusherInside == flusher.pc # "idle"

\* no call is under way
Quiet == adder.pc = "idle" /\ flusher.pc = "idle"

\* no message whose add_message returned is missing from both the pending
\* batches and the returned ones, or is in more than one place
NoMessageLostOrTwice ==
    Quiet => \A n \in 1..Len(c_added) : PlacesOf(c_added[n]) = 1

\* no call raised
NoCallFailed == c_failed = {}

\* C22: with add_message on one thread and check_expired, flush_all or
\* flush_topic on another, the two calls are never inside the pending state
\* at the same time, every added message is, once the calls have returned, in
\* exactly one place (a pending batch or a returned batch), and no call fails.
C22_SafeFromConcurrentCallers ==
    /\ ~(AdderInside /\ FlusherInside)
    /\ NoMessageLostOrTwice
    /\ NoCallFailed

(***************************************************************************)
(* Properties of the resolver.                                             *)
(***************************************************************************)
\* the project a resolution settles on: the directive's, else the hint's,
\* when that names a configured project
ProjectResolved(a) ==
    \/ a.directive_project # None /\ a.directive_project[1] \in KnownProjects
    \/ /\ a.directive_project = None
       /\ a.project_hint # None
       /\ a.project_hint[1] \in KnownProjects

\* C23: for every presence and absence of the inputs, an explicit engine
\* override is the engine chosen; without one, the default engine of the
\* resolved project is chosen when a project was resolved, by directive or by
\* hint, and declares one; otherwise the resolver chooses none and the engine
\* run is the router's default.
C23_EnginePrecedence ==
    resolved # None =>
        LET a == resolve_args[1]
            r == resolved[1]
        IN  /\ (r.context # None) <=> ProjectResolved(a)
            /\ a.override # None =>
                  /\ r.engine_override = a.override
                  /\ r.engine = a.override[1]
            /\ (/\ a.override = None
                /\ ProjectResolved(a)
                /\ a.project_default_engine # None) =>
                  /\ r.engine_override = a.project_default_engine
                  /\ r.engine = a.project_default_engine[1]
            /\ (/\ a.override = None
                /\ ~(ProjectResolved(a) /\ a.project_default_engine # None)) =>
                  /\ r.engine_override = None
                  /\ r.engine = DefaultEngine

\* C23's case: an override for codex, a project resolved by the transport's
\* hint alone, the project declaring pi; codex was chosen.
C23_Witness ==
    /\ resolved # None
    /\ resolve_args[1].override = Some("codex")
    /\ resolve_args[1].directive_project = None
    /\ resolve_args[1].project_hint = Some("proj")
    /\ resolve_args[1].project_default_engine = Some("pi")
    /\ resolved[1].context # None
    /\ resolved[1].engine = "codex"

(***************************************************************************)
(* Properties of the runner.                                               *)
(***************************************************************************)
\* thread t is inside run(): its external process is in flight
InRun(t) == pc[t] = "in_run"

\* C1: of the run_serialized calls made with the same non-empty session id, at
\* most one is inside run() at any time.
C1_OneInFlightPerSession ==
    \A t1, t2 \in Threads :
        (/\ InRun(t1)
         /\ InRun(t2)
         /\ Truthy(session_id[t1])
         /\ session_id[t1] = session_id[t2]) => t1 = t2

\* C1's case: two calls for session s1 at once, one inside run(), the other
\* waiting for the session's lock.
C1_Witness ==
    \E t1, t2 \in Threads :
        /\ t1 # t2
        /\ session_id[t1] = Some("s1")
        /\ session_id[t2] = Some("s1")
        /\ InRun(t1)
        /\ pc[t2] = "acquire"

\* C7: a call for session S made while another call for S is in flight starts
\* its process only when no other call for S is inside run(), and having
\* reached the lock it does start it eventually, whatever way the calls before
\* it ended.
C7_WaitsThenRuns ==
    /\ [][\A t \in Threads :
            (pc[t] = "acquire" /\ pc'[t] = "in_run") =>
               \A u \in Threads \ {t} :
                  ~(InRun(u) /\ session_id[u] = session_id[t])]_vars
    /\ \A t \in Threads : (pc[t] = "acquire") ~> InRun(t)

\* C7's case: a call that found its session's lock held is inside run() after
\* the call that held the lock failed.
C7_Witness ==
    \E t, u \in Threads :
        /\ t # u
        /\ t \in waited
        /\ InRun(t)
        /\ pc[u] = "returned"
        /\ result[u].kind = "raised"
        /\ lock[u] = lock[t]

\* C8: calls with distinct session ids, or with none, never block one another:
\* a call without a session id takes no lock and never enters _lock_for; a
\* call waiting for a lock waits for a call of its own session; and the guard
\* of the lock map is never held across run().
C8_OtherSessionsNeverBlock ==
    /\ \A t \in Threads :
          session_id[t] = None =>
             /\ lock[t] = 0
             /\ pc[t] \in {"idle", "in_run", "returned"}
             /\ \A l \in 1..Len(held) : held[l] # t
    /\ \A t \in Threads :
          (pc[t] = "acquire" /\ held[lock[t]] # 0) =>
             session_id[held[lock[t]]] = session_id[t]
    /\ \A t \in Threads :
          guard = t => pc[t] \in {"lf_check", "lf_create", "lf_return"}

\* C8's case: calls for two sessions are inside run() at once, each holding
\* its own session's lock.
C8_Witness ==
    \E t1, t2 \in Threads :
        /\ InRun(t1)
        /\ InRun(t2)
        /\ session_id[t1] = Some("s1")
        /\ session_id[t2] = Some("s2")
        /\ held[lock[t1]] = t1
        /\ held[lock[t2]] = t2

\* thread t has its lock from _lock_for
HasLock(t) == lock[t] # 0

\* C24: the lock map holds at most one lock per session id for the runner's
\* whole life: as many lock objects were ever made as the map has ids, every
\* thread that _lock_for returned to has the lock the map holds for its id,
\* also when several threads asked for a not-yet-seen id at once, and no step
\* removes an id from the map or gives it another lock.
C24_OneLockPerSessionForever ==
    /\ [](/\ Len(held) = Cardinality(DOMAIN locks)
          /\ \A t \in Threads :
                HasLock(t) =>
                   /\ session_id[t][1] \in DOMAIN locks
                   /\ lock[t] = locks[session_id[t][1]]
          /\ \A t1, t2 \in Threads :
                (HasLock(t1) /\ HasLock(t2) /\ session_id[t1] = session_id[t2])
                   => lock[t1] = lock[t2])
    /\ [][\A s \in DOMAIN locks :
             s \in DOMAIN locks' /\ locks'[s] = locks[s]]_vars

\* C24's case: two threads are in calls for s1 at once and _lock_for has
\* returned to both, with the same lock; the map, which got a lock for s2
\* from an earlier call, has two locks, one for each id.
C24_Witness ==
    \E t1, t2 \in Threads :
        /\ t1 # t2
        /\ DOMAIN locks = {"s1", "s2"}
        /\ Len(held) = 2
        /\ session_id[t1] = Some("s1")
        /\ session_id[t2] = Some("s1")
        /\ HasLock(t1)
        /\ HasLock(t2)
        /\ lock[t1] = locks["s1"]
        /\ lock[t2] = locks["s1"]
        /\ locks["s1"] # locks["s2"]

(***************************************************************************)
(* Properties of the bridge.                                               *)
(***************************************************************************)
\* the ids of a sequence of message ids
Range(seq) == {seq[i] : i \in 1..Len(seq)}

\* the send_message_chunked calls made for one handle call
SendsFor(call) == {r \in sent : r.call = call}

\* the handle calls whose run has ended: returned ones and those still linking
Handled ==
    done \cup {[call |-> job[t], outcome |-> result[t]] :
                  t \in {u \in Threads : pc[u] = "link"}}

\* C9: after a run succeeded with session id S, every message its answer was
\* sent as is linked to S once handle has linked it; a message that replies to
\* a linked message of such an answer is submitted with resume id S, and a
\* message that replies to nothing, or to a message no link was made for, is
\* submitted with no resume id.
C9_RepliesResumeTheSession ==
    /\ \A r \in sent :
          r.outcome.kind = "ok" =>
             \A m \in Range(r.ids) :
                \/ \E t \in Threads : job[t] = r.call /\ m \in Range(toLink[t])
                \/ StoreResolve(store, r.chat_id, m) =
                      Some([route_type |-> "exec",
                            route_id |-> r.outcome.session_id,
                            meta |-> "workspace"])
    /\ \A i \in 1..Len(submitted) :
          LET d == submitted[i]
          IN  /\ ~d.linked => d.call.resume_session = None
              /\ \A r \in sent :
                    (/\ d.linked
                     /\ r.outcome.kind = "ok"
                     /\ r.chat_id = d.call.chat_id
                     /\ d.reply_to[1] \in Range(r.ids))
                    => d.call.resume_session = Some(r.outcome.session_id)

\* C9's case: an answer went out as two messages and a reply to the second
\* one was submitted with the answer's session id.
C9_Witness ==
    \E i \in 1..Len(submitted) : \E r \in sent :
        /\ r.outcome.kind = "ok"
        /\ Len(r.ids) = 2
        /\ r.chat_id = submitted[i].call.chat_id
        /\ submitted[i].reply_to = Some(r.ids[2])
        /\ submitted[i].call.resume_session = Some(r.outcome.session_id)

\* C10: when run_serialized fails in a worker, handle catches it: exactly one
\* send_message_chunked call is made for the request, with the error as its
\* text, to the triggering chat, as a reply to the triggering message, and no
\* answer is sent; the worker ends free, holding no lock, so the pool goes on.
C10_FailureAnsweredOnce ==
    /\ \A d \in Handled :
          d.outcome.kind = "raised" =>
             /\ Cardinality(SendsFor(d.call)) = 1
             /\ \A r \in SendsFor(d.call) :
                   /\ r.chat_id = d.call.chat_id
                   /\ r.reply_to_message_id = d.call.user_msg_id
                   /\ r.text = <<"Error:", d.outcome.error>>
    /\ \A t \in Threads :
          pc[t] = "idle" =>
             /\ guard # t
             /\ \A l \in 1..Len(held) : held[l] # t

\* C10's case: a request failed and was answered with an error, and a request
\* that arrived in the same chat after that answer was run and answered.
C10_Witness ==
    \E d1, d2 \in done : \E r \in sent :
        /\ d1.outcome.kind = "raised"
        /\ r.call = d1.call
        /\ d2.outcome.kind = "ok"
        /\ d2.call.chat_id = d1.call.chat_id
        /\ d2.call.user_msg_id > r.ids[1]

\* the session ids the external process assigns
EngineSessions == {"s1", "s2"}

\* the sessions a failed request can be said to belong to: the one it resumed,
\* or, for a request that started a new session, any id the process assigns
SessionsOfFailed(call) ==
    IF call.resume_session # None THEN {call.resume_session}
    ELSE {Some(s) : s \in EngineSessions}

\* C11: after a failed request every error message sent is linked, with the
\* error marker as metadata, once handle has linked it; and a message that
\* replies to a linked error message is submitted as a resume of the session
\* the failed request belonged to.
C11_ErrorRepliesResumeTheSession ==
    /\ \A r \in sent :
          r.outcome.kind = "raised" =>
             \A m \in Range(r.ids) :
                \/ \E t \in Threads : job[t] = r.call /\ m \in Range(toLink[t])
                \/ /\ StoreResolve(store, r.chat_id, m) # None
                   /\ StoreResolve(store, r.chat_id, m)[1].meta = "error"
    /\ \A i \in 1..Len(submitted) :
          LET d == submitted[i]
          IN  \A r \in sent :
                 (/\ d.linked
                  /\ r.outcome.kind = "raised"
                  /\ r.chat_id = d.call.chat_id
                  /\ d.reply_to[1] \in Range(r.ids))
                 => d.call.resume_session \in SessionsOfFailed(r.call)

\* the session ids run has returned so far
ReportedSessions == {r.outcome.session_id : r \in {x \in sent : x.outcome.kind = "ok"}}

\* C26: every resume id handed to run_serialized is a session id an earlier
\* successful run returned: the route store maps messages to such ids only,
\* and so does every submitted call and every call a worker is in.
C26_ResumeIdsAreReportedSessions ==
    /\ \A k \in DOMAIN store : store[k].route_id \in ReportedSessions
    /\ \A i \in 1..Len(submitted) :
          submitted[i].call.resume_session # None =>
             submitted[i].call.resume_session[1] \in ReportedSessions
    /\ \A t \in Threads :
          session_id[t] # None => session_id[t][1] \in ReportedSessions

(***************************************************************************)
(* Properties of run.  They compare what run raised or returned with the   *)
(* stream, the exit code and the session argument of the call.             *)
(***************************************************************************)
\* the session-started events that carry an id, as run recognises them
StartedLines == {ThreadStartedLine(s) : s \in EngineSessions}
\* the texts of the agent messages of the model
AgentTexts == {"t1", "t2", ""}
\* the item.completed events whose item is an agent message with a text
AgentMessageLines == {ItemCompletedLine(AgentMessage(JStr(x))) : x \in AgentTexts}
\* every other line: blank, unparsable, of an unrecognised type, of an
\* unexpected shape
UnrecognisedLines == Lines \ (StartedLines \cup AgentMessageLines)

\* the lines of stdout the loop has taken
Observed == SubSeq(proc_stdout, 1, line_no)

\* the error of a process that failed, and of a run that found no session id
IsExecutionFailed(res) == res.kind = "raised" /\ res.error = "codex exec failed"
IsMissingSessionId(res) ==
    res.kind = "raised" /\ res.error = "no session_id/thread_id was captured"

\* C12: when the process exits with a non-zero code, run raises whatever was
\* on stdout, and what it raises carries the exit code and a tail of stderr:
\* the last lines captured, 200 at most.
C12_NonZeroExitFails ==
    (run_pc = "done" /\ proc_exit # 0) =>
        /\ IsExecutionFailed(run_result)
        /\ run_result.rc = proc_exit
        /\ run_result.tail[2] <= proc_stderr
        /\ run_result.tail[2] - run_result.tail[1] + 1 <= TailLimit
        /\ run_result.tail[1] = 1 \/ run_result.tail[2] - run_result.tail[1] + 1 = TailLimit

\* C13: when the process exits zero, run raises the missing-session-id error
\* exactly when it was given no resume id and took no session-started event
\* carrying an id from the stream.
C13_MissingSessionIdExactly ==
    (run_pc = "done" /\ proc_exit = 0) =>
        (IsMissingSessionId(run_result)
           <=> /\ ~Truthy(run_session_id)
               /\ \A i \in 1..Len(Observed) : Observed[i] \notin StartedLines)

\* C15: a line that is not a recognised event is skipped: taking it from the
\* stream neither ends run nor changes found_session and last_agent_text, and
\* the loop goes on with the next line.
C15_UnrecognisedLinesSkipped ==
    [][(/\ run_pc = "reading"
        /\ line_no' = line_no + 1
        /\ proc_stdout[line_no + 1] \in UnrecognisedLines)
       => /\ run_pc' = "reading"
          /\ found_session' = found_session
          /\ last_agent_text' = last_agent_text]_vars

\* where the agent messages are in a sequence of lines
AgentIdx(seq) == {i \in 1..Len(seq) : seq[i] \in AgentMessageLines}
\* the text of the last agent message of a sequence that has one
LastAgentTextOf(seq) == seq[SetMax(AgentIdx(seq))].value.f.item.f.text.s

\* C14 as stated: a run that returns gives the text of the last agent message
\* taken from the stream, and the placeholder when there was none.
C14_AsStated ==
    (run_pc = "done" /\ run_result.kind = "ok") =>
        run_result.answer =
            IF AgentIdx(Observed) = {} THEN Placeholder
            ELSE LastAgentTextOf(Observed)

\* C14: a run that returns gives the text of the last agent message taken
\* from the stream when that text is not empty (later messages overwrite
\* earlier ones, no other line changes it); it gives the placeholder when
\* there was no agent message and when the last one's text is empty.
C14_LastNonEmptyTextOrPlaceholder ==
    (run_pc = "done" /\ run_result.kind = "ok") =>
        /\ Observed = proc_stdout
        /\ run_result.answer =
              IF AgentIdx(Observed) = {} THEN Placeholder
              ELSE IF LastAgentTextOf(Observed) = "" THEN Placeholder
              ELSE LastAgentTextOf(Observed)

\* C14's case: the stream had the agent messages t1 and t2 in this order and
\* then a line that is no agent message; run returned t2.
C14_Witness ==
    /\ run_pc = "done"
    /\ run_result.kind = "ok"
    /\ Len(proc_stdout) = 3
    /\ proc_stdout[1] = ItemCompletedLine(AgentMessage(JStr("t1")))
    /\ proc_stdout[2] = ItemCompletedLine(AgentMessage(JStr("t2")))
    /\ proc_stdout[3] \in UnrecognisedLines
    /\ run_result.answer = "t2"

\* where the session-started events carrying an id are in a sequence of lines
StartedIdx(seq) == {i \in 1..Len(seq) : seq[i] \in StartedLines}

C25_ResumeIdKept ==
    (/\ run_pc = "done"
     /\ Truthy(run_session_id)
     /\ run_result.kind = "ok")
    => run_result.session_id = run_session_id[1]

====
